---- MODULE Spec2Model ----
(***************************************************************************)
(* Model of package backoff (src/backoff.go): the Backoff object, its two  *)
(* constructors New and CoerceNew with the four functional options, and    *)
(* computeDelay / Sleep / PeekDelay.                                       *)
(*                                                                         *)
(* Scaling.  A time.Duration is an int64 count of nanoseconds and the      *)
(* jitter arithmetic is done in float64 (53-bit significand).  Here a      *)
(* duration is a signed DurationBits-bit integer counting milliseconds,    *)
(* a float has a MantissaBits-bit significand, and a jitter factor is an   *)
(* integer number of tenths (JitterScale == 10, so the source's 0.3 is 3). *)
(* The arithmetic keeps the source's shape: `*= 2` wraps modulo            *)
(* 2^DurationBits, float64(x) rounds to the significand (ties to even),    *)
(* math.Round rounds half away from zero, and a float -> int conversion of *)
(* a value outside the integer range is implementation-dependent in Go, so *)
(* it is a choice among the outcomes the supported targets produce.        *)
(***************************************************************************)
EXTENDS Integers, Sequences, FiniteSets, TLC

VARIABLES pc, ctor, options, b, built, errs, calls, prev, u, ret, peeked, wrapped,
          twin, sync, mutex, thread

\* the state of the callers that share one object
raceVars == <<sync, mutex, thread>>

vars == <<pc, ctor, options, b, built, errs, calls, prev, u, ret, peeked, wrapped,
          twin, raceVars>>

-----------------------------------------------------------------------------
(* Bounds of the model.                                                    *)

\* width of a duration (int64 in the source)
DurationBits == 20
\* significand of a float (53 bits in the source)
MantissaBits == 17
\* random draws are the grid points k / RandGrid, k \in 0 .. RandGrid - 1
RandGrid == 4
\* longest option list given to a constructor in SpecNew
MaxOptions == 4
\* number of computeDelay calls followed on one object
MaxCalls == 10
\* number of PeekDelay calls followed between two computeDelay calls
MaxPeeks == 2

\* a jitter factor f of the source is the integer f * JitterScale
JitterScale == 10

-----------------------------------------------------------------------------
(* time.Duration: signed integers of DurationBits bits.                    *)

MinDuration == -(2 ^ (DurationBits - 1))
MaxDuration == 2 ^ (DurationBits - 1) - 1

Abs(x) == IF x < 0 THEN -x ELSE x
Sign(x) == IF x < 0 THEN -1 ELSE 1

\* two's-complement wrap of an integer into MinDuration .. MaxDuration
Wrap(x) == ((x - MinDuration) % (2 ^ DurationBits)) + MinDuration

\* b.delay *= 2.0 on a time.Duration
Mul2(d) == Wrap(2 * d)

-----------------------------------------------------------------------------
(* float64, as far as computeDelay uses it.  A float value is num / den    *)
(* with den a power of two.                                                *)

RECURSIVE FloorLog2(_)
FloorLog2(a) == IF a < 2 THEN 0 ELSE 1 + FloorLog2(a \div 2)

\* least k with a * 2^k >= d, for 0 < a < d
RECURSIVE ShiftsToReach(_, _)
ShiftsToReach(a, d) == IF a >= d THEN 0 ELSE 1 + ShiftsToReach(2 * a, d)

\* a / d rounded to the nearest integer, ties to the even one (a >= 0, d > 0)
RoundHalfEven(a, d) ==
    LET f == a \div d
        r == a % d
    IN  IF 2 * r < d THEN f
        ELSE IF 2 * r > d THEN f + 1
        ELSE IF f % 2 = 0 THEN f ELSE f + 1

\* the float nearest to the rational n / d (d > 0)
RoundToFloat(n, d) ==
    LET a == Abs(n)
        e == IF a >= d THEN FloorLog2(a \div d) ELSE -ShiftsToReach(a, d)
        q == e - MantissaBits + 1
    IN  IF n = 0 THEN [num |-> 0, den |-> 1]
        ELSE IF q >= 0
             THEN [num |-> Sign(n) * RoundHalfEven(a, d * 2 ^ q) * 2 ^ q, den |-> 1]
             ELSE [num |-> Sign(n) * RoundHalfEven(a * 2 ^ (-q), d), den |-> 2 ^ (-q)]

\* float64(b.delay.Nanoseconds()): the float nearest to an integer is itself
\* an integer
ToFloat64(n) == LET f == RoundToFloat(n, 1) IN f.num \div f.den

\* math.Round: nearest integer, halves away from zero
MathRound(f) == Sign(f.num) * ((2 * Abs(f.num) + f.den) \div (2 * f.den))

\* int(x) then time.Duration(...) of an integral float x: exact in range;
\* out of range Go leaves the result to the implementation (amd64 yields the
\* minimum integer, arm64 saturates).
ToDuration(x) ==
    IF x > MaxDuration THEN {MinDuration, MaxDuration}
    ELSE IF x < MinDuration THEN {MinDuration}
    ELSE {x}

-----------------------------------------------------------------------------
(* The Backoff object and its defaults.                                    *)

defaultInitDelay == 100
defaultBaseDelay == 100
defaultExpLimit == 180000
defaultJitterFactor == 3

defaultBackoff ==
    [delay |-> defaultInitDelay, baseDelay |-> defaultBaseDelay,
     expLimit |-> defaultExpLimit, jitterFactor |-> defaultJitterFactor]

\* a nil *Backoff and a nil error
Nil == [nil |-> TRUE]
NoError == "nil"

ErrInitialDelay == "the initial delay must be >= 0"
ErrBaseDelay == "the base delay must be > 0"
ErrExpLimit == "the exponential backoff limit must be >= 0"
ErrJitterFactor == "the jitterFactor must be in the range [0,1)"

-----------------------------------------------------------------------------
(* The options: each is a closure over its argument, applied to the object *)
(* under construction with the coerce flag; it yields the object and the   *)
(* error it returns.                                                       *)

WithInitialDelay(d, bk, coerce) ==
    IF d >= 0 THEN [b |-> [bk EXCEPT !.delay = d], err |-> NoError]
    ELSE IF ~coerce THEN [b |-> bk, err |-> ErrInitialDelay]
    ELSE [b |-> [bk EXCEPT !.delay = 0], err |-> NoError]

\* mutant: coercion clamps an invalid base delay to 0, as the other durations are
WithBaseDelayClampZero(d, bk, coerce) ==
    IF d > 0 THEN [b |-> [bk EXCEPT !.baseDelay = d], err |-> NoError]
    ELSE IF ~coerce THEN [b |-> bk, err |-> ErrBaseDelay]
    ELSE [b |-> [bk EXCEPT !.baseDelay = 0], err |-> NoError]

\* mutant: coercion resets an invalid base delay to the default
WithBaseDelayResetDefault(d, bk, coerce) ==
    IF d > 0 THEN [b |-> [bk EXCEPT !.baseDelay = d], err |-> NoError]
    ELSE IF ~coerce THEN [b |-> bk, err |-> ErrBaseDelay]
    ELSE [b |-> [bk EXCEPT !.baseDelay = defaultBaseDelay], err |-> NoError]

WithBaseDelay(d, bk, coerce) ==
    IF d > 0 THEN [b |-> [bk EXCEPT !.baseDelay = d], err |-> NoError]
    ELSE IF ~coerce THEN [b |-> bk, err |-> ErrBaseDelay]
    ELSE [b |-> bk, err |-> NoError]

\* mutant: the limit test is d > 0
WithExponentialLimitPositive(d, bk, coerce) ==
    IF d > 0 THEN [b |-> [bk EXCEPT !.expLimit = d], err |-> NoError]
    ELSE IF ~coerce THEN [b |-> bk, err |-> ErrExpLimit]
    ELSE [b |-> [bk EXCEPT !.expLimit = 0], err |-> NoError]

WithExponentialLimit(d, bk, coerce) ==
    IF d >= 0 THEN [b |-> [bk EXCEPT !.expLimit = d], err |-> NoError]
    ELSE IF ~coerce THEN [b |-> bk, err |-> ErrExpLimit]
    ELSE [b |-> [bk EXCEPT !.expLimit = 0], err |-> NoError]

\* mutant: coercion sets every invalid jitter factor to 0
WithJitterFactorClampZero(jitterFactor, bk, coerce) ==
    IF jitterFactor >= 0 /\ jitterFactor < JitterScale
    THEN [b |-> [bk EXCEPT !.jitterFactor = jitterFactor], err |-> NoError]
    ELSE IF ~coerce THEN [b |-> bk, err |-> ErrJitterFactor]
    ELSE [b |-> [bk EXCEPT !.jitterFactor = 0], err |-> NoError]

WithJitterFactor(jitterFactor, bk, coerce) ==
    IF jitterFactor >= 0 /\ jitterFactor < JitterScale
    THEN [b |-> [bk EXCEPT !.jitterFactor = jitterFactor], err |-> NoError]
    ELSE IF ~coerce THEN [b |-> bk, err |-> ErrJitterFactor]
    ELSE IF jitterFactor < 0
         THEN [b |-> [bk EXCEPT !.jitterFactor = 0], err |-> NoError]
         ELSE [b |-> bk, err |-> NoError]

\* options[i](b, coerce): an option value is [opt |-> its constructor, arg |-> its argument]
ApplyOption(o, bk, coerce) ==
    CASE o.opt = "WithInitialDelay" -> WithInitialDelay(o.arg, bk, coerce)
      [] o.opt = "WithBaseDelay" -> WithBaseDelay(o.arg, bk, coerce)
      [] o.opt = "WithExponentialLimit" -> WithExponentialLimit(o.arg, bk, coerce)
      [] o.opt = "WithJitterFactor" -> WithJitterFactor(o.arg, bk, coerce)

\* mutant: errs = options[i](b, false), the last result replaces the others
JoinOverwrite(es, err) == IF err = NoError THEN <<>> ELSE <<err>>

\* errors.Join(errs, err): nil errors are dropped, nil when nothing is left;
\* a joined error is the sequence of its messages
Join(es, err) == IF err = NoError THEN es ELSE Append(es, err)

\* the loop of New from index i on
RECURSIVE NewLoop(_, _, _, _)
NewLoop(opts, i, bk, es) ==
    IF i > Len(opts) THEN [b |-> bk, errs |-> es]
    ELSE LET r == ApplyOption(opts[i], bk, FALSE)
         IN  NewLoop(opts, i + 1, r.b, Join(es, r.err))

\* New(options...): the object and the error it returns
New(opts) ==
    LET r == NewLoop(opts, 1, defaultBackoff, <<>>)
    IN  IF r.errs # <<>> THEN [b |-> Nil, errs |-> r.errs]
        ELSE [b |-> r.b, errs |-> <<>>]

\* the loop of CoerceNew from index i on (the options' errors are discarded)
RECURSIVE CoerceLoop(_, _, _)
CoerceLoop(opts, i, bk) ==
    IF i > Len(opts) THEN bk
    ELSE CoerceLoop(opts, i + 1, ApplyOption(opts[i], bk, TRUE).b)

\* CoerceNew(options...): the object it returns
CoerceNew(opts) == CoerceLoop(opts, 1, defaultBackoff)

-----------------------------------------------------------------------------
(* computeDelay.                                                           *)

\* j := 1.0 + (rand.Float64()-0.5)*b.jitterFactor, for the draw k / RandGrid,
\* as the fraction JitterNum / JitterDen
JitterDen == 2 * RandGrid * JitterScale
JitterNum(jitterFactor, k) == JitterDen + (2 * k - RandGrid) * jitterFactor

\* d := float64(b.delay.Nanoseconds()) * j
JitteredFloat(delay, jitterFactor, k) ==
    RoundToFloat(ToFloat64(delay) * JitterNum(jitterFactor, k), JitterDen)

\* return time.Duration(int(math.Round(d))): the values the call can return
JitteredDelay(delay, jitterFactor, k) ==
    ToDuration(MathRound(JitteredFloat(delay, jitterFactor, k)))

\* mutant: the doubled delay is clamped at the limit
NextDelayClamped(bk) ==
    IF bk.delay = 0 THEN bk.baseDelay
    ELSE IF bk.delay < bk.expLimit
         THEN (IF Mul2(bk.delay) > bk.expLimit THEN bk.expLimit ELSE Mul2(bk.delay))
    ELSE bk.delay

\* mutant: the limit test is b.delay <= b.expLimit
NextDelayAtLimit(bk) ==
    IF bk.delay = 0 THEN bk.baseDelay
    ELSE IF bk.delay <= bk.expLimit THEN Mul2(bk.delay)
    ELSE bk.delay

\* mutant: no cold-start branch
NextDelayNoColdStart(bk) ==
    IF bk.delay < bk.expLimit THEN Mul2(bk.delay) ELSE bk.delay

\* mutant: an exponential limit of 0 switches the limit off
NextDelayZeroLimitOff(bk) ==
    IF bk.delay = 0 THEN bk.baseDelay
    ELSE IF bk.delay < bk.expLimit \/ bk.expLimit = 0 THEN Mul2(bk.delay)
    ELSE bk.delay

\* mutant: the doubling starts from the delay widened by the jitter factor
NextDelayFedBack(bk) ==
    IF bk.delay = 0 THEN bk.baseDelay
    ELSE IF bk.delay < bk.expLimit
         THEN Mul2((bk.delay * JitterNum(bk.jitterFactor, RandGrid)) \div JitterDen)
    ELSE bk.delay

\* mutant: the delay is doubled only while the doubled delay is below the limit
NextDelayStopsShort(bk) ==
    IF bk.delay = 0 THEN bk.baseDelay
    ELSE IF Mul2(bk.delay) < bk.expLimit THEN Mul2(bk.delay)
    ELSE bk.delay

\* mutant: a zero delay restarts at twice the base delay
NextDelayColdStartDoubled(bk) ==
    IF bk.delay = 0 THEN Mul2(bk.baseDelay)
    ELSE IF bk.delay < bk.expLimit THEN Mul2(bk.delay)
    ELSE bk.delay

\* update state for the next backoff round: the new b.delay
NextDelay(bk) ==
    IF bk.delay = 0 THEN bk.baseDelay
    ELSE IF bk.delay < bk.expLimit THEN Mul2(bk.delay)
    ELSE bk.delay

\* PeekDelay
PeekDelay(bk) == bk.delay

-----------------------------------------------------------------------------
(* The inputs.                                                             *)

Option(kind, args) == {[opt |-> kind, arg |-> a] : a \in args}

\* arguments of the options in the constructor specification SpecNew
CtorDurations == {-1, 0, 7}
CtorJitters == {-1, 0, 5, JitterScale}
CtorOptions ==
    Option("WithInitialDelay", CtorDurations) \cup Option("WithBaseDelay", CtorDurations)
    \cup Option("WithExponentialLimit", CtorDurations)
    \cup Option("WithJitterFactor", CtorJitters)

\* every option list of at most MaxOptions options, in any order, with repeats
OptionLists == UNION {[1 .. n -> CtorOptions] : n \in 0 .. MaxOptions}

\* arguments of the options in the life-cycle specification Spec
RunInitialDelays ==
    {-1, 0, 1, 2, 500, 2 ^ MantissaBits + 1, 2 ^ (DurationBits - 2), MaxDuration}
RunBaseDelays == {0, 1, 500, 2 ^ (DurationBits - 2)}
RunExpLimits == {-1, 0, 64, 60000, MaxDuration}
RunJitters == {-1, 0, 9, JitterScale}

\* no option, or the one option of that kind
Optional(kind, args) == {<<>>} \cup {<<o>> : o \in Option(kind, args)}

\* the option lists of the tests: each setting given once or left out
RunOptionLists ==
    {i \o s \o l \o j :
        i \in Optional("WithInitialDelay", RunInitialDelays),
        s \in Optional("WithBaseDelay", RunBaseDelays),
        l \in Optional("WithExponentialLimit", RunExpLimits),
        j \in Optional("WithJitterFactor", RunJitters)}

-----------------------------------------------------------------------------
(* The state machine.  pc is "start" before construction, "ready" once a   *)
(* constructor has returned an object and "failed" once New has returned   *)
(* nil.  built is the object as the constructor returned it; prev, u and   *)
(* ret record the last computeDelay call: b.delay as the call read it, its *)
(* random draw and the value it returned.  peeked holds the values the     *)
(* PeekDelay calls since the last computeDelay returned, and wrapped tells *)
(* whether some `b.delay *= 2.0` has overflowed.  twin is a second object  *)
(* with its last draw and return value.  thread gives, for each goroutine  *)
(* that calls computeDelay on the shared object, the line it is at and its *)
(* locals; sync tells whether the callers hold a mutex around the call,    *)
(* and mutex who holds it.                                                 *)

\* the goroutines that share the object
Threads == {1, 2}

\* a goroutine that has not called computeDelay yet
Idle == [at |-> "idle", d |-> 0, ret |-> 0]

Init ==
    /\ pc = "start"
    /\ ctor = "none"
    /\ options = <<>>
    /\ b = Nil
    /\ built = Nil
    /\ errs = <<>>
    /\ calls = 0
    /\ prev = 0
    /\ u = 0
    /\ ret = 0
    /\ peeked = <<>>
    /\ wrapped = FALSE
    /\ twin = Nil
    /\ sync = FALSE
    /\ mutex = 0
    /\ thread = [t \in Threads |-> Idle]

\* b, err := New(opts...), for an option list of `lists`
CallNew(lists) ==
    /\ pc = "start"
    /\ \E opts \in lists :
        LET r == New(opts)
        IN  /\ b' = r.b
            /\ built' = r.b
            /\ errs' = r.errs
            /\ pc' = IF r.b = Nil THEN "failed" ELSE "ready"
            /\ options' = opts
    /\ ctor' = "New"
    /\ UNCHANGED <<calls, prev, u, ret, peeked, wrapped, twin, raceVars>>

\* b := CoerceNew(opts...), for an option list of `lists`
CallCoerceNew(lists) ==
    /\ pc = "start"
    /\ \E opts \in lists :
        /\ b' = CoerceNew(opts)
        /\ built' = CoerceNew(opts)
        /\ options' = opts
    /\ errs' = <<>>
    /\ pc' = "ready"
    /\ ctor' = "CoerceNew"
    /\ UNCHANGED <<calls, prev, u, ret, peeked, wrapped, twin, raceVars>>

\* mutant: a delay that starts above the limit raises the limit to itself
computeDelayRaisesLimit ==
    /\ \E k \in 0 .. RandGrid - 1 :
        \E r \in JitteredDelay(b.delay, b.jitterFactor, k) :
            /\ u' = k
            /\ ret' = r
    /\ prev' = b.delay
    /\ b' = [b EXCEPT !.delay = NextDelay(b),
                      !.expLimit = IF b.delay > b.expLimit THEN b.delay ELSE b.expLimit]
    /\ peeked' = <<>>
    /\ wrapped' = (wrapped \/ (b.delay # 0 /\ b.delay < b.expLimit
                                /\ Mul2(b.delay) # 2 * b.delay))
    /\ UNCHANGED <<pc, ctor, options, built, errs>>

\* b.computeDelay(), with the draw k / RandGrid: the jittered value of the
\* delay it reads is returned and the delay is updated for the next round
computeDelay ==
    /\ \E k \in 0 .. RandGrid - 1 :
        \E r \in JitteredDelay(b.delay, b.jitterFactor, k) :
            /\ u' = k
            /\ ret' = r
    /\ prev' = b.delay
    /\ b' = [b EXCEPT !.delay = NextDelay(b)]
    /\ peeked' = <<>>
    /\ wrapped' = (wrapped \/ (b.delay # 0 /\ b.delay < b.expLimit
                                /\ Mul2(b.delay) # 2 * b.delay))
    /\ UNCHANGED <<pc, ctor, options, built, errs>>

\* b.Sleep(): time.Sleep(b.computeDelay())
Sleep ==
    /\ pc = "ready"
    /\ calls < MaxCalls
    /\ computeDelay
    /\ calls' = calls + 1
    /\ UNCHANGED <<twin, raceVars>>

\* d := b.PeekDelay()
CallPeekDelay ==
    /\ pc = "ready"
    /\ Len(peeked) < MaxPeeks
    /\ peeked' = Append(peeked, PeekDelay(b))
    /\ UNCHANGED <<pc, ctor, options, b, built, errs, calls, prev, u, ret, wrapped>>
    /\ UNCHANGED <<twin, raceVars>>

Next ==
    \/ CallNew(RunOptionLists)
    \/ CallCoerceNew(RunOptionLists)
    \/ Sleep
    \/ CallPeekDelay

Spec == Init /\ [][Next]_vars

NextNew ==
    \/ CallNew(OptionLists)
    \/ CallCoerceNew(OptionLists)

SpecNew == Init /\ [][NextNew]_vars

\* settings of the objects that are called without end
LiveInitialDelays == {-1, 0, 1, 500, 2 ^ (DurationBits - 2)}
LiveBaseDelays == {0, 1, 500}
LiveExpLimits == {-1, 0, 64, 60000, MaxDuration}
LiveJitters == {0, 9}
LiveOptionLists ==
    {<<i, s, l, j>> :
        i \in Option("WithInitialDelay", LiveInitialDelays),
        s \in Option("WithBaseDelay", LiveBaseDelays),
        l \in Option("WithExponentialLimit", LiveExpLimits),
        j \in Option("WithJitterFactor", LiveJitters)}

\* b.Sleep(), called again and again: calls stops counting at MaxCalls
SleepOn ==
    /\ pc = "ready"
    /\ computeDelay
    /\ calls' = IF calls < MaxCalls THEN calls + 1 ELSE calls
    /\ UNCHANGED <<twin, raceVars>>

NextLive ==
    \/ CallNew(LiveOptionLists)
    \/ CallCoerceNew(LiveOptionLists)
    \/ SleepOn

\* what every computeDelay call does to the object
Advance ==
    /\ pc = "ready"
    /\ b' = [b EXCEPT !.delay = NextDelay(b)]

\* the caller keeps calling Sleep: a call that would change the object is
\* not put off for ever
SpecLive == Init /\ [][NextLive]_vars /\ WF_b(Advance)

\* settings of the two objects that are stepped side by side
TwinInitialDelays == {0, 1, 500, 2 ^ (DurationBits - 2)}
TwinBaseDelays == {1, 500}
TwinExpLimits == {0, 64, 60000, MaxDuration}
TwinJitters == {0, 3, 9}
TwinOptionLists ==
    {<<i, s, l>> :
        i \in Option("WithInitialDelay", TwinInitialDelays),
        s \in Option("WithBaseDelay", TwinBaseDelays),
        l \in Option("WithExponentialLimit", TwinExpLimits)}

\* b, _ := New(opts..., WithJitterFactor(j1)) and
\* twin, _ := New(opts..., WithJitterFactor(j2))
CallNewTwin(lists, jitters) ==
    /\ pc = "start"
    /\ \E opts \in lists, j1 \in jitters, j2 \in jitters :
        LET r1 == New(Append(opts, [opt |-> "WithJitterFactor", arg |-> j1]))
            r2 == New(Append(opts, [opt |-> "WithJitterFactor", arg |-> j2]))
        IN  /\ b' = r1.b
            /\ built' = r1.b
            /\ errs' = r1.errs
            /\ twin' = IF r2.b = Nil THEN Nil ELSE [b |-> r2.b, u |-> 0, ret |-> 0]
            /\ pc' = IF r1.b = Nil \/ r2.b = Nil THEN "failed" ELSE "ready"
            /\ options' = opts
    /\ ctor' = "New"
    /\ UNCHANGED <<calls, prev, u, ret, peeked, wrapped, raceVars>>

\* b.Sleep() and twin.Sleep(), each with a draw of its own
SleepTwin ==
    /\ pc = "ready"
    /\ twin # Nil
    /\ calls < MaxCalls
    /\ computeDelay
    /\ calls' = calls + 1
    /\ \E k \in 0 .. RandGrid - 1 :
        \E r \in JitteredDelay(twin.b.delay, twin.b.jitterFactor, k) :
            twin' = [b |-> [twin.b EXCEPT !.delay = NextDelay(twin.b)],
                     u |-> k, ret |-> r]
    /\ UNCHANGED raceVars

NextTwin ==
    \/ CallNewTwin(TwinOptionLists, TwinJitters)
    \/ SleepTwin

SpecTwin == Init /\ [][NextTwin]_vars

\* settings of the object that the goroutines share
RaceInitialDelays == {0, 1, 32, 500}
RaceBaseDelays == {1, 500}
RaceExpLimits == {0, 64, 60000}
RaceJitters == {0, 9}
RaceOptionLists ==
    {<<i, s, l, j>> :
        i \in Option("WithInitialDelay", RaceInitialDelays),
        s \in Option("WithBaseDelay", RaceBaseDelays),
        l \in Option("WithExponentialLimit", RaceExpLimits),
        j \in Option("WithJitterFactor", RaceJitters)}

\* b, _ := New(opts...), handed to goroutines that either all guard their
\* calls with one mutex or all call without synchronization
CallNewShared(lists) ==
    /\ pc = "start"
    /\ \E opts \in lists :
        LET r == New(opts)
        IN  /\ b' = r.b
            /\ built' = r.b
            /\ errs' = r.errs
            /\ pc' = IF r.b = Nil THEN "failed" ELSE "ready"
            /\ options' = opts
    /\ ctor' = "New"
    /\ sync' \in BOOLEAN
    /\ UNCHANGED <<calls, prev, u, ret, peeked, wrapped, twin, mutex, thread>>

\* goroutine t moves to line `at` with its locals d and ret
Goto(t, at, d, r) == thread' = [thread EXCEPT ![t] = [at |-> at, d |-> d, ret |-> r]]

\* what a step of a goroutine leaves alone besides b, thread and mutex
ThreadFrame == UNCHANGED <<pc, ctor, options, built, errs, prev, u, ret, peeked,
                           wrapped, twin, sync>>

\* mutant: the call is entered without taking the mutex
EnterUnlocked(t) ==
    /\ pc = "ready"
    /\ thread[t].at = "idle"
    /\ Goto(t, "193", 0, 0)
    /\ UNCHANGED <<b, calls, mutex>>
    /\ ThreadFrame

\* mu.Lock() when the callers synchronize, then the call of b.computeDelay()
Enter(t) ==
    /\ pc = "ready"
    /\ thread[t].at = "idle"
    /\ sync => mutex = 0
    /\ mutex' = IF sync THEN t ELSE mutex
    /\ Goto(t, "193", 0, 0)
    /\ UNCHANGED <<b, calls>>
    /\ ThreadFrame

\* j := 1.0 + (rand.Float64()-0.5)*b.jitterFactor
\* d := float64(b.delay.Nanoseconds()) * j
Jitter(t) ==
    /\ thread[t].at = "193"
    /\ \E k \in 0 .. RandGrid - 1 :
        \E r \in JitteredDelay(b.delay, b.jitterFactor, k) : Goto(t, "197", 0, r)
    /\ UNCHANGED <<b, calls, mutex>>
    /\ ThreadFrame

\* if b.delay == 0.0
TestZero(t) ==
    /\ thread[t].at = "197"
    /\ Goto(t, IF b.delay = 0 THEN "198" ELSE "199", 0, thread[t].ret)
    /\ UNCHANGED <<b, calls, mutex>>
    /\ ThreadFrame

\* b.delay = b.baseDelay
StoreBase(t) ==
    /\ thread[t].at = "198"
    /\ b' = [b EXCEPT !.delay = b.baseDelay]
    /\ Goto(t, "203", 0, thread[t].ret)
    /\ UNCHANGED <<calls, mutex>>
    /\ ThreadFrame

\* else if b.delay < b.expLimit
TestLimit(t) ==
    /\ thread[t].at = "199"
    /\ Goto(t, IF b.delay < b.expLimit THEN "200" ELSE "203", 0, thread[t].ret)
    /\ UNCHANGED <<b, calls, mutex>>
    /\ ThreadFrame

\* b.delay *= 2.0, the load of b.delay
LoadDelay(t) ==
    /\ thread[t].at = "200"
    /\ Goto(t, "200 store", b.delay, thread[t].ret)
    /\ UNCHANGED <<b, calls, mutex>>
    /\ ThreadFrame

\* b.delay *= 2.0, the store of the doubled value
StoreDouble(t) ==
    /\ thread[t].at = "200 store"
    /\ b' = [b EXCEPT !.delay = Mul2(thread[t].d)]
    /\ Goto(t, "203", 0, thread[t].ret)
    /\ UNCHANGED <<calls, mutex>>
    /\ ThreadFrame

\* return time.Duration(int(math.Round(d))), then mu.Unlock() when the
\* callers synchronize
Return(t) ==
    /\ thread[t].at = "203"
    /\ Goto(t, "done", 0, thread[t].ret)
    /\ mutex' = IF sync THEN 0 ELSE mutex
    /\ calls' = calls + 1
    /\ UNCHANGED b
    /\ ThreadFrame

NextRace ==
    \/ CallNewShared(RaceOptionLists)
    \/ \E t \in Threads :
        \/ Enter(t)
        \/ Jitter(t)
        \/ TestZero(t)
        \/ StoreBase(t)
        \/ TestLimit(t)
        \/ LoadDelay(t)
        \/ StoreDouble(t)
        \/ Return(t)

SpecRace == Init /\ [][NextRace]_vars

-----------------------------------------------------------------------------
(* Vocabulary of the properties.                                           *)

Ready == pc = "ready"

\* the option violates the constraint of its setting
Violates(o) ==
    CASE o.opt = "WithInitialDelay" -> o.arg < 0
      [] o.opt = "WithBaseDelay" -> o.arg <= 0
      [] o.opt = "WithExponentialLimit" -> o.arg < 0
      [] o.opt = "WithJitterFactor" -> ~(o.arg >= 0 /\ o.arg < JitterScale)

\* the message that names the setting of an option
MessageOf(o) ==
    CASE o.opt = "WithInitialDelay" -> "the initial delay must be >= 0"
      [] o.opt = "WithBaseDelay" -> "the base delay must be > 0"
      [] o.opt = "WithExponentialLimit" -> "the exponential backoff limit must be >= 0"
      [] o.opt = "WithJitterFactor" -> "the jitterFactor must be in the range [0,1)"

ViolatedAt(opts) == {i \in 1 .. Len(opts) : Violates(opts[i])}
AllValid(opts) == ViolatedAt(opts) = {}

\* one message per violated option, in the order of the list
RECURSIVE MessagesFrom(_, _)
MessagesFrom(opts, i) ==
    IF i > Len(opts) THEN <<>>
    ELSE IF Violates(opts[i]) THEN <<MessageOf(opts[i])>> \o MessagesFrom(opts, i + 1)
    ELSE MessagesFrom(opts, i + 1)

\* the positions of the options of one kind, and the list gives each setting
\* at most once
Supplied(opts, kind) == {i \in 1 .. Len(opts) : opts[i].opt = kind}
EachOnce(opts) ==
    \A i, j \in 1 .. Len(opts) : opts[i].opt = opts[j].opt => i = j
ArgOf(opts, kind) == opts[CHOOSE i \in Supplied(opts, kind) : TRUE].arg

\* the configuration of the concrete scenario: initial delay 0, base delay
\* 500ms, exponential limit 60000ms
Scenario ==
    /\ Ready
    /\ built.delay = 0
    /\ built.baseDelay = 500
    /\ built.expLimit = 60000

\* initial delay 0 and jitter factor 0
NoJitterFromZero == Ready /\ built.delay = 0 /\ built.jitterFactor = 0

Min2(x, y) == IF x < y THEN x ELSE y

-----------------------------------------------------------------------------
(* C1, as stated: with initial delay 0 and jitter factor 0 the nominal       *)
(* delay before the n-th advance is 0, base, 2*base, 4*base, ... clamped at  *)
(* exponential_limit, so it never exceeds exponential_limit; for 0 / 500ms / *)
(* 60000ms the ninth value is 60000.  It is stated here for the              *)
(* configurations the sentence has in mind: a base delay that is not above   *)
(* the limit, and a limit whose double is still a duration.                  *)
C1_ClampedAtLimit ==
    (NoJitterFromZero /\ b.baseDelay <= b.expLimit /\ 2 * b.expLimit <= MaxDuration) =>
        /\ b.delay = (IF calls = 0 THEN 0
                      ELSE Min2(b.baseDelay * 2 ^ (calls - 1), b.expLimit))
        /\ b.delay <= b.expLimit
        /\ (Scenario /\ calls = 8) => b.delay = 60000

\* the nominal values of the scenario as the code produces them
ScenarioNominal(n) ==
    IF n >= 8 THEN 64000
    ELSE <<0, 500, 1000, 2000, 4000, 8000, 16000, 32000>>[n + 1]

(* C1, amended: with initial delay 0 and jitter factor 0 the nominal         *)
(* sequence starts 0, base; each later value is twice the one before it (in  *)
(* the duration's wrapping arithmetic) when that one is non-zero and below   *)
(* exponential_limit, base when it is 0, and the same value once it is at or *)
(* above exponential_limit.  It is not clamped: for 0 / 500ms / 60000ms the  *)
(* sequence is 0, 500, ..., 32000, 64000, 64000, ... (ninth value 64000).    *)
C1_DoublesUntilLimitReached ==
    NoJitterFromZero =>
        /\ calls = 0 => b.delay = 0
        /\ calls = 1 => b.delay = b.baseDelay
        /\ calls > 1 =>
            b.delay = (IF prev = 0 THEN b.baseDelay
                       ELSE IF prev < b.expLimit THEN Wrap(prev + prev)
                       ELSE prev)
        /\ Scenario => b.delay = ScenarioNominal(calls)

\* the scenario after nine advances: the ninth and tenth nominal values are 64000
C1_Witness ==
    /\ NoJitterFromZero
    /\ Scenario
    /\ calls = 9
    /\ prev = 64000
    /\ b.delay = 64000

-----------------------------------------------------------------------------
(* C2: CoerceNew returns an object for every option list, and every object   *)
(* a constructor returns has delay >= 0, baseDelay > 0, expLimit >= 0 and    *)
(* 0 <= jitterFactor < 1.                                                    *)
C2_ConstructedValid ==
    /\ ctor = "CoerceNew" => (Ready /\ b # Nil)
    /\ (Ready /\ calls = 0) =>
        /\ b.delay >= 0
        /\ b.baseDelay > 0
        /\ b.expLimit >= 0
        /\ b.jitterFactor >= 0
        /\ b.jitterFactor < JitterScale

\* CoerceNew of a list of MaxOptions options that are all invalid, two of them
\* for the same setting
C2_Witness ==
    /\ ctor = "CoerceNew"
    /\ Ready
    /\ Len(options) = MaxOptions
    /\ ViolatedAt(options) = 1 .. Len(options)
    /\ ~EachOnce(options)
    /\ Supplied(options, "WithBaseDelay") # {}
    /\ Supplied(options, "WithJitterFactor") # {}

-----------------------------------------------------------------------------
(* C3: New fails (nil object, non-nil error) exactly when some supplied      *)
(* option violates its constraint, and the error then carries one message    *)
(* per violated option, whatever the option's position in the list.          *)
C3_NewReportsEveryViolation ==
    ctor = "New" =>
        /\ (pc = "failed") <=> (ViolatedAt(options) # {})
        /\ pc = "failed" => (b = Nil /\ errs # <<>> /\ errs = MessagesFrom(options, 1))
        /\ Ready => (b # Nil /\ errs = <<>>)

\* New failed on a list whose first option is invalid, whose last option is
\* valid and which has a second violation in between or after
C3_Witness ==
    /\ ctor = "New"
    /\ pc = "failed"
    /\ Len(options) >= 3
    /\ Violates(options[1])
    /\ ~Violates(options[Len(options)])
    /\ Len(errs) >= 2

-----------------------------------------------------------------------------
(* C4: for an option list whose values all satisfy their constraints, New    *)
(* succeeds and returns an object with the same four field values as the     *)
(* object CoerceNew returns for that list.                                   *)
C4_NewAgreesWithCoerceNew ==
    (pc # "start" /\ AllValid(options)) =>
        /\ ctor = "New" => (Ready /\ errs = <<>> /\ b = CoerceNew(options))
        /\ ctor = "CoerceNew" => (New(options).errs = <<>> /\ New(options).b = b)

\* New succeeded on a list that sets all four fields to non-default values
C4_Witness ==
    /\ ctor = "New"
    /\ Ready
    /\ EachOnce(options)
    /\ Len(options) = 4
    /\ b.delay # defaultInitDelay
    /\ b.baseDelay # defaultBaseDelay
    /\ b.expLimit = 0
    /\ b.jitterFactor # defaultJitterFactor

-----------------------------------------------------------------------------
(* C5: CoerceNew of a list that gives each setting at most once and has      *)
(* exactly one invalid value: the invalid setting's field is its fallback    *)
(* (negative initial delay -> 0, base delay <= 0 -> 100ms, negative limit    *)
(* -> 0, jitter factor < 0 -> 0, jitter factor >= 1 -> 0.3) and every other  *)
(* field is the supplied value, or the default when it is not supplied.      *)
C5_ExpectedDelay ==
    IF Supplied(options, "WithInitialDelay") = {} THEN 100
    ELSE IF ArgOf(options, "WithInitialDelay") < 0 THEN 0
    ELSE ArgOf(options, "WithInitialDelay")

C5_ExpectedBaseDelay ==
    IF Supplied(options, "WithBaseDelay") = {} THEN 100
    ELSE IF ArgOf(options, "WithBaseDelay") <= 0 THEN 100
    ELSE ArgOf(options, "WithBaseDelay")

C5_ExpectedExpLimit ==
    IF Supplied(options, "WithExponentialLimit") = {} THEN 180000
    ELSE IF ArgOf(options, "WithExponentialLimit") < 0 THEN 0
    ELSE ArgOf(options, "WithExponentialLimit")

C5_ExpectedJitterFactor ==
    IF Supplied(options, "WithJitterFactor") = {} THEN 3
    ELSE IF ArgOf(options, "WithJitterFactor") < 0 THEN 0
    ELSE IF ArgOf(options, "WithJitterFactor") >= JitterScale THEN 3
    ELSE ArgOf(options, "WithJitterFactor")

C5_SingleInvalidFallback ==
    (ctor = "CoerceNew" /\ EachOnce(options) /\ Cardinality(ViolatedAt(options)) = 1) =>
        /\ Ready
        /\ b.delay = C5_ExpectedDelay
        /\ b.baseDelay = C5_ExpectedBaseDelay
        /\ b.expLimit = C5_ExpectedExpLimit
        /\ b.jitterFactor = C5_ExpectedJitterFactor

\* CoerceNew of all four settings, the jitter factor alone invalid (>= 1) and
\* the other three valid and not the defaults
C5_Witness ==
    /\ ctor = "CoerceNew"
    /\ EachOnce(options)
    /\ Len(options) = 4
    /\ Cardinality(ViolatedAt(options)) = 1
    /\ ArgOf(options, "WithJitterFactor") >= JitterScale
    /\ b.jitterFactor = 3
    /\ b.delay = 7
    /\ b.baseDelay = 7
    /\ b.expLimit = 7

-----------------------------------------------------------------------------
(* C6: current_delay >= 0 in every state reachable from a validly            *)
(* constructed object by any number of advance calls, durations being        *)
(* signed integers whose doubling wraps and exponential_limit being allowed  *)
(* up to the largest duration.                                               *)
C6_DelayNeverNegative == Ready => b.delay >= 0

-----------------------------------------------------------------------------
(* C7: saturation is stable: an advance from a state with                    *)
(* current_delay >= exponential_limit and current_delay # 0 leaves           *)
(* current_delay unchanged.                                                  *)
C7_SaturationStable ==
    [][(Ready /\ b.delay >= b.expLimit /\ b.delay # 0) => b'.delay = b.delay]_vars

\* two advances from a saturated state whose nominal delay has passed the
\* limit
C7_Witness ==
    /\ Ready
    /\ calls >= 2
    /\ built.delay < built.expLimit
    /\ prev > b.expLimit
    /\ b.delay = prev

-----------------------------------------------------------------------------
(* C8: with jitter factor 0 every advance returns exactly the value          *)
(* current_delay had immediately before the call, in every reachable state   *)
(* and for every random draw.                                                *)
C8_ExactWithoutJitter ==
    (Ready /\ calls > 0 /\ b.jitterFactor = 0) => ret = prev

-----------------------------------------------------------------------------
(* C9: for every jitter factor j, every pre-call nominal delay d0 > 0 and    *)
(* every draw, the value advance returns is round(d0 * (1 + (u - 0.5) * j)), *)
(* computed from the pre-call d0, and lies in                                *)
(* [d0 * (1 - j/2), d0 * (1 + j/2)] up to rounding to the nearest time unit. *)

\* round(d0 * (1 + (u - 0.5) * j)) in exact arithmetic, for d0 > 0
C9_ExactJittered(d0, jitterFactor, k) ==
    (2 * d0 * JitterNum(jitterFactor, k) + JitterDen) \div (2 * JitterDen)

C9_JitterBound ==
    (Ready /\ calls > 0 /\ prev > 0) =>
        /\ ret = C9_ExactJittered(prev, b.jitterFactor, u)
        /\ 2 * JitterScale * ret >= prev * (2 * JitterScale - b.jitterFactor) - JitterScale
        /\ 2 * JitterScale * ret <= prev * (2 * JitterScale + b.jitterFactor) + JitterScale

-----------------------------------------------------------------------------
-----------------------------------------------------------------------------
(* C11: the cold-start state is reachable only from a zero initial delay:    *)
(* an object constructed with initial delay > 0 never has current_delay = 0, *)
(* over any number of advance calls (so base_delay is never stored in        *)
(* current_delay).                                                           *)
C11_NoColdStartFromPositive ==
    (Ready /\ built.delay > 0) => (b.delay # 0 /\ (calls > 0 => prev # 0))

-----------------------------------------------------------------------------
(* C12: PeekDelay is read-only: it leaves the four fields unchanged and      *)
(* consumes no randomness; repeated calls without an advance in between      *)
(* return the same value; and the value it returns is the d0 the next        *)
(* advance uses, so with jitter factor 0 the next advance returns exactly    *)
(* the peeked value.                                                         *)
C12_PeekDelayReadOnly ==
    /\ [][(Ready /\ calls' = calls) => (b' = b /\ u' = u /\ ret' = ret)]_vars
    /\ [](Ready => \A i \in 1 .. Len(peeked) : peeked[i] = b.delay)
    /\ [][(Ready /\ calls' = calls + 1 /\ peeked # <<>>) =>
            /\ prev' = peeked[1]
            /\ b.jitterFactor = 0 => ret' = peeked[1]]_vars

-----------------------------------------------------------------------------
-----------------------------------------------------------------------------
(* C14: the nominal growth sequence is independent of jitter: two objects    *)
(* built from the same initial delay, base delay and exponential limit,      *)
(* stepped in lockstep with different random draws and different jitter      *)
(* factors, have equal current_delay after every advance; the jittered       *)
(* return value is never fed back into current_delay.                        *)
C14_NominalIndependentOfJitter ==
    (Ready /\ twin # Nil) =>
        /\ twin.b.delay = b.delay
        /\ twin.b.baseDelay = b.baseDelay
        /\ twin.b.expLimit = b.expLimit

C14_Witness ==
    /\ Ready
    /\ twin # Nil
    /\ calls >= 3
    /\ twin.b.jitterFactor # b.jitterFactor
    /\ twin.u # u
    /\ twin.ret # ret
    /\ b.delay > built.delay
    /\ twin.b.delay = b.delay

-----------------------------------------------------------------------------
(* C15: growing phase: in every state with 0 < current_delay <               *)
(* exponential_limit, one advance sets current_delay to exactly twice its    *)
(* pre-call value, whatever the jittered result.                             *)
C15_GrowingDoubles ==
    [][(Ready /\ 0 < b.delay /\ b.delay < b.expLimit /\ calls' = calls + 1)
            => b'.delay = 2 * b.delay]_vars

-----------------------------------------------------------------------------
(* C16: computeDelay and Sleep modify only current_delay: base_delay,        *)
(* exponential_limit and jitter_factor have, in every reachable state, the   *)
(* values they had when construction returned.                               *)
C16_OnlyDelayModified ==
    Ready =>
        /\ b.baseDelay = built.baseDelay
        /\ b.expLimit = built.expLimit
        /\ b.jitterFactor = built.jitterFactor

C16_Witness ==
    /\ Ready
    /\ calls >= 3
    /\ prev # 0
    /\ b.delay # built.delay
    /\ b.delay > b.expLimit
    /\ b.baseDelay = built.baseDelay
    /\ b.expLimit = built.expLimit
    /\ b.jitterFactor = built.jitterFactor

-----------------------------------------------------------------------------
(* C17: advance is not atomic.  Two callers that run it concurrently on one  *)
(* instance without synchronization can end with a current_delay that no     *)
(* serial order of the two calls gives (a lost doubling, or a doubling       *)
(* applied after the limit was already reached); when the calls are          *)
(* serialized by a mutex the final current_delay always equals that of two   *)
(* sequential advances.                                                      *)
RECURSIVE SerialDelay(_, _)
\* b.delay after n calls of computeDelay made one after the other
SerialDelay(bk, n) ==
    IF n = 0 THEN bk.delay
    ELSE SerialDelay([bk EXCEPT !.delay = NextDelay(bk)], n - 1)

AllDone == \A t \in Threads : thread[t].at = "done"

C17_MutexSerializes ==
    (Ready /\ sync) =>
        /\ \A t1, t2 \in Threads :
                (t1 # t2 /\ thread[t1].at \notin {"idle", "done"})
                    => thread[t2].at \in {"idle", "done"}
        /\ mutex = 0 => b.delay = SerialDelay(built, calls)
        /\ AllDone => b.delay = SerialDelay(built, Cardinality(Threads))

\* a lost doubling: both callers doubled, the delay was doubled once
C17_LostDoubling ==
    /\ Ready /\ ~sync /\ AllDone
    /\ 0 < built.delay /\ 2 * built.delay < built.expLimit
    /\ b.delay = 2 * built.delay
    /\ SerialDelay(built, 2) = 4 * built.delay

\* a doubling applied after the limit was already reached
C17_DoublingPastLimit ==
    /\ Ready /\ ~sync /\ AllDone
    /\ 0 < built.delay /\ built.delay < built.expLimit
    /\ 2 * built.delay >= built.expLimit
    /\ b.delay = 4 * built.delay
    /\ SerialDelay(built, 2) = 2 * built.delay

C17_Witness ==
    /\ Ready /\ AllDone
    /\ b.delay # SerialDelay(built, 2)
    /\ C17_LostDoubling \/ C17_DoublingPastLimit

-----------------------------------------------------------------------------
(* C18: every backoff eventually saturates: from any validly constructed     *)
(* object, unless a doubling overflows, after finitely many advance calls    *)
(* current_delay >= exponential_limit and current_delay > 0 hold, and from   *)
(* then on current_delay never changes again.                                *)
Saturated == Ready /\ b.delay >= b.expLimit /\ b.delay > 0

C18_EventuallySaturates ==
    /\ Ready ~> (wrapped \/ Saturated)
    /\ [][Saturated => (Saturated' /\ b'.delay = b.delay /\ wrapped' = wrapped)]_vars

C18_Witness ==
    /\ Saturated
    /\ ~wrapped
    /\ calls >= 3
    /\ built.delay < built.expLimit
    /\ prev = b.delay

-----------------------------------------------------------------------------
(* C19: overshoot bound: absent integer overflow, every reachable            *)
(* current_delay is the configured initial delay, the base delay, or 2*x for *)
(* some earlier nominal x with 0 < x < exponential_limit; hence              *)
(* current_delay <= max(initial_delay, base_delay, 2*exponential_limit - 2)  *)
(* in every reachable state.                                                 *)
Max2(x, y) == IF x > y THEN x ELSE y

\* the nominal delays before the calls made so far
EarlierNominal == {SerialDelay(built, n) : n \in 0 .. calls - 1}

C19_OvershootBound ==
    (Ready /\ ~wrapped) =>
        /\ b.delay = SerialDelay(built, calls)
        /\ \/ b.delay = built.delay
           \/ b.delay = b.baseDelay
           \/ \E x \in EarlierNominal :
                0 < x /\ x < b.expLimit /\ b.delay = 2 * x
        /\ b.delay <= Max2(built.delay, Max2(b.baseDelay, 2 * b.expLimit - 2))

C19_Witness ==
    /\ Ready
    /\ ~wrapped
    /\ calls >= 3
    /\ b.delay > b.expLimit
    /\ b.delay > built.delay
    /\ b.delay > b.baseDelay
    /\ b.delay <= 2 * b.expLimit - 2
    /\ \E x \in EarlierNominal : 0 < x /\ x < b.expLimit /\ b.delay = 2 * x

-----------------------------------------------------------------------------
(* C20: options are folded left to right onto the defaults, so when one      *)
(* setting is supplied more than once the last valid value wins; in coercing *)
(* mode an invalid base delay (<= 0) or a jitter factor >= 1 leaves the      *)
(* field at the value it held before that option, whereas a negative initial *)
(* delay, exponential limit or jitter factor overwrites any earlier value    *)
(* with 0.                                                                   *)

\* the option writes its field: a valid one its value, and in coercing mode a
\* negative initial delay, exponential limit or jitter factor the value 0
Writes(o) ==
    CASE o.opt = "WithBaseDelay" -> o.arg > 0
      [] o.opt = "WithJitterFactor" -> o.arg < JitterScale
      [] OTHER -> TRUE

Written(o) == IF Violates(o) THEN 0 ELSE o.arg

\* the last option of the kind that writes its field
LastWrite(opts, kind) ==
    LET S == {i \in Supplied(opts, kind) : Writes(opts[i])}
    IN  IF S = {} THEN 0 ELSE CHOOSE i \in S : \A j \in S : j <= i

FieldAfter(opts, kind, default) ==
    IF LastWrite(opts, kind) = 0 THEN default
    ELSE Written(opts[LastWrite(opts, kind)])

====
